---- MODULE Spec2Model ----
(***************************************************************************)
(* Backup / restore engine of travelmanager                               *)
(* (src/services/backup_service.py, src/services/backup_encryption.py,    *)
(* src/api/v1/backup.py).                                                  *)
(*                                                                         *)
(* Live state: the SQLite database file, the avatar directory, the .env   *)
(* file and the pre-restore recovery directory.  perform_restore and      *)
(* create_backup are plain synchronous functions without any lock; each   *)
(* caller is a process whose steps are the function's accesses to the     *)
(* shared files, in program order.                                         *)
(***************************************************************************)
EXTENDS Integers, Sequences, FiniteSets, TLC

\* ------------------------------------------------------------------ bounds
MaxClock == 1   \* seconds the wall clock may advance

\* ------------------------------------------------------------- processes
Restorers == {"r1", "r2"}   \* callers of perform_restore
Readers   == {"b1"}         \* caller of create_backup / validate_backup / get_backup_info
Procs     == Restorers \cup Readers

\* ------------------------------------------------------------ rows, keys
InstanceKey == "K1"         \* settings.secret_key of the running process
ForeignKey  == "K0"         \* secret key of the instance a legacy archive came from

BACKUP_FORMAT_VERSION == "0.2.2"

Admin1 == [id |-> "u1", username |-> "admin", is_admin |-> TRUE,  is_active |-> TRUE]
Bob    == [id |-> "u2", username |-> "bob",   is_admin |-> FALSE, is_active |-> TRUE]
Carol  == [id |-> "u3", username |-> "carol", is_admin |-> TRUE,  is_active |-> FALSE]
NoRow  == [id |-> "",   username |-> "",      is_admin |-> FALSE, is_active |-> FALSE]

\* A database file.  schema: the tables exist (a 0-byte file has none);
\* head: users has the full_name column of the latest revision.
NoDb ==
  [exists |-> FALSE, schema |-> FALSE, head |-> FALSE, users |-> {},
   sessions |-> {}, events |-> {}, configs |-> {}, data |-> "-"]

EmptyDb == [NoDb EXCEPT !.exists = TRUE]

LiveDb0 ==
  [exists |-> TRUE, schema |-> TRUE, head |-> TRUE,
   users |-> {Admin1, Bob}, sessions |-> {"s1"},
   events |-> {[id |-> "e1", user_id |-> "u2"]},
   configs |-> {[id |-> "c1", created_by |-> "u2", key |-> InstanceKey, data |-> "d1"]},
   data |-> "L"]

NoAvatars == [exists |-> FALSE, files |-> {}]
LiveAvatars0 == [exists |-> TRUE, files |-> {"me.png"}]

\* ------------------------------------------------------------ tar archives
\* A member name: absolute or relative, as its path segments.
Name(abs, segs) == [abs |-> abs, segs |-> segs]

\* ".." in member.name is a substring test: it is true of a parent segment
\* and of any file name that holds two consecutive dots.
DotDotSegments == {"..", "a..b.png"}

\* backup_service.py:241
UnsafeName(n) ==
  n.abs \/ \E i \in 1..Len(n.segs) : n.segs[i] \in DotDotSegments

\* Where tarfile writes a member when no filter is given: an absolute name, or
\* one that climbs with a parent segment, lands outside the destination.
Escapes(n) == n.abs \/ \E i \in 1..Len(n.segs) : n.segs[i] = ".."

\* hashlib.sha256 of a database file's bytes: equal files, equal digests,
\* and no two of the files in play share one.  {} is the empty string the
\* manifest carries when no database file was packed.
Sha256(d) == {d}

\* st_size of a database file, in pages: 0 for a 0-byte file.
DbSize(d) ==
  IF ~d.schema THEN 0
  ELSE 1 + Cardinality(d.users) + Cardinality(d.sessions)
         + Cardinality(d.events) + Cardinality(d.configs)

\* manifest.json.  db_size_bytes and avatar_count are the values it declares.
NoManifest ==
  [has |-> FALSE, json |-> TRUE, version |-> "", secret_key |-> "", internal |-> FALSE,
   checksum |-> {}, db_size_bytes |-> 0, avatar_count |-> 0]

Manifest(version, secret, internal) ==
  [has |-> TRUE, json |-> TRUE, version |-> version, secret_key |-> secret,
   internal |-> internal, checksum |-> {}, db_size_bytes |-> 0, avatar_count |-> 0]

NoConfigs == [has |-> FALSE, json |-> TRUE, list |-> <<>>]

NoDbFile == [has |-> FALSE, header |-> FALSE, db |-> NoDb]

\* A manifest whose checksum field was left empty.
ChecksumBlank(m, dbfile) == m

\* backup_service.py:141-158 (and 755-771): the checksum is taken from the
\* database file that lies in the backup directory when the manifest is made.
Checksummed(m, dbfile) ==
  [m EXCEPT !.checksum = IF dbfile.has THEN Sha256(dbfile.db) ELSE {}]

\* backup_service.py:141-157 (and 756-771): the size and the count the
\* packager writes into its manifest.
Declared(m, dbfile, a) ==
  [m EXCEPT !.db_size_bytes = IF dbfile.has THEN DbSize(dbfile.db) ELSE 0,
            !.avatar_count = IF a.exists THEN Cardinality(a.files) ELSE 0]

\* One top-level directory of an archive.
BackupDir(name, manifest, dbfile, avatars, configs) ==
  [name |-> name, manifest |-> manifest, dbfile |-> dbfile,
   avatars |-> avatars, configs |-> configs]

\* A tar.gz byte stream.  parse: "ok", or how reading it fails ("tar_error": a
\* tarfile.TarError; "eof_error": gzip data that ends early, an EOFError);
\* dirs its top-level directories; extra the member names that are not below
\* one of them.
Tar(parse, dirs, extra) == [parse |-> parse, dirs |-> dirs, extra |-> extra]

BadTar == Tar("tar_error", <<>>, {})

MemberNames(t) ==
  t.extra \cup
  UNION { { Name(FALSE, <<t.dirs[i].name, "avatars", f>>) : f \in t.dirs[i].avatars.files }
          : i \in 1..Len(t.dirs) }

\* --------------------------------------------------------------- envelope
\* backup_encryption.py:17-33  PBKDF2 is deterministic in (password, salt).
derive_key_from_password(password, salt) == <<password, salt>>

\* Salts, 16 bytes of os.urandom, that happen to begin with 1F 8B: followed
\* by a byte other than 08 (gzip: unknown compression method) or by 08 (the
\* bytes then read as a deflate stream that ends early).
GzipSalt == "1f8b00"
GzipSaltDeflate == "1f8b08"
GzipSalts == {GzipSalt, GzipSaltDeflate}

\* Uploaded bytes.  gz: the first two bytes are 1F 8B.  For an envelope, salt
\* is the 16-byte prefix ("" : the bytes are no envelope), key the key the
\* token was made with, intact whether the token's HMAC still matches its
\* bytes, tar the plaintext.
Plain(t) ==
  [gz |-> TRUE, salt |-> "", key |-> <<"", "">>, intact |-> TRUE, tar |-> t]

\* backup_encryption.py:36-50 and backup_service.py:174-177: salt || token.
\* The first two bytes of the result are the first two bytes of the salt.
encrypt_backup_archive(t, password, salt) ==
  [gz |-> salt \in GzipSalts, salt |-> salt,
   key |-> derive_key_from_password(password, salt), intact |-> TRUE, tar |-> t]

\* The uploaded bytes read as a gzip stream (lines 233-238): the tar of a
\* plain upload; salt and token read as gzip are no tar archive
\* (tarfile.ReadError), or end early (EOFError).
Payload(bytes) ==
  IF bytes.salt = "" THEN bytes.tar
  ELSE IF bytes.salt = GzipSaltDeflate THEN Tar("eof_error", <<>>, {})
  ELSE BadTar

Tamper(bytes) == [bytes EXCEPT !.intact = FALSE]

\* backup_service.py:182-185
_is_encrypted_backup(bytes) == ~bytes.gz

\* A cipher without authentication: the key alone decides.
DecryptUnauthenticated(bytes, password) ==
  IF bytes.key = derive_key_from_password(password, bytes.salt)
  THEN [success |-> TRUE, tar |-> bytes.tar, msg |-> ""]
  ELSE [success |-> FALSE, tar |-> BadTar, msg |-> "Invalid password or corrupted backup"]

\* backup_encryption.py:78-97: Fernet verifies the HMAC of the token before
\* it decrypts; InvalidToken is what a wrong key and changed bytes both raise.
try_decrypt_backup(bytes, password) ==
  IF bytes.intact /\ bytes.key = derive_key_from_password(password, bytes.salt)
  THEN [success |-> TRUE, tar |-> bytes.tar, msg |-> ""]
  ELSE [success |-> FALSE, tar |-> BadTar, msg |-> "Invalid password or corrupted backup"]


\* ------------------------------------------------------------- validation
NoMetadata ==
  [has |-> FALSE, backup_format_version |-> "", is_password_protected |-> FALSE,
   has_legacy_secret_key |-> FALSE, db_size_bytes |-> 0, avatar_count |-> 0,
   integration_config_count |-> 0]

VResult(valid, message, metadata, warnings, extracted) ==
  [raised |-> FALSE, valid |-> valid, message |-> message, metadata |-> metadata,
   warnings |-> warnings, extracted |-> extracted]

\* json.load of manifest.json or integration_configs.json raises: nothing
\* in validate_backup catches it.
VRaised == [VResult(FALSE, "JSONDecodeError", NoMetadata, {}, TRUE) EXCEPT !.raised = TRUE]

VRaisedEof == [VResult(FALSE, "EOFError", NoMetadata, {}, FALSE) EXCEPT !.raised = TRUE]

\* backup_service.py:261-302: the metadata as the manifest gives it, or the
\* synthetic one of a missing manifest.
ManifestMetadata(m, is_encrypted) ==
  [has |-> TRUE,
   backup_format_version |-> IF m.has THEN m.version ELSE "unknown",
   is_password_protected |-> is_encrypted,
   has_legacy_secret_key |-> m.has /\ m.secret_key # "",
   db_size_bytes |-> IF m.has THEN m.db_size_bytes ELSE 0,
   avatar_count |-> IF m.has THEN m.avatar_count ELSE 0,
   integration_config_count |-> 0]

LegacyWarning ==
  "This is a legacy backup (v0.2.0). Consider creating a new password-protected backup for better security."

\* A validator that never warns.
NoWarnings(m) == {}

\* backup_service.py:261-264 and 297-302
Warnings(m) ==
  IF ~m.has THEN {"No manifest.json found - backup may be from an older version"}
  ELSE IF m.secret_key # "" THEN {LegacyWarning}
  ELSE {}

\* A validator that reports what the manifest declares.
TrustManifest(metadata, backup_dir) == metadata

\* backup_service.py:315-329: size and counts taken from the extracted files.
ActualCounts(metadata, backup_dir) ==
  [metadata EXCEPT
     !.db_size_bytes = DbSize(backup_dir.dbfile.db),
     !.avatar_count = IF backup_dir.avatars.exists
                      THEN Cardinality(backup_dir.avatars.files) ELSE 0,
     !.integration_config_count =
        IF backup_dir.configs.has THEN Len(backup_dir.configs.list) ELSE 0]

\* backup_service.py:231-331, on the gzip payload t.  k is the position, in
\* the order Path.iterdir() happens to list them, of the directory taken as
\* subdirs[0].
ValidateTar(t, is_encrypted, k) ==
  IF t.parse = "eof_error" THEN VRaisedEof
  ELSE IF t.parse # "ok"
  THEN VResult(FALSE, "Invalid or corrupted backup file", NoMetadata, {}, FALSE)
  ELSE IF \E n \in MemberNames(t) : UnsafeName(n)
  THEN VResult(FALSE, "Invalid backup file: contains unsafe paths", NoMetadata, {}, FALSE)
  ELSE IF Len(t.dirs) = 0
  THEN VResult(FALSE, "Backup archive is empty", NoMetadata, {}, TRUE)
  ELSE
    LET backup_dir == t.dirs[k]
        m == backup_dir.manifest
        warnings == Warnings(m)
        c == backup_dir.configs
    IN  IF m.has /\ ~m.json THEN VRaised
        ELSE IF ~backup_dir.dbfile.has
        THEN VResult(FALSE, "No database file found in backup", NoMetadata, {}, TRUE)
        ELSE IF ~backup_dir.dbfile.header
        THEN VResult(FALSE, "Database file is not a valid SQLite database", NoMetadata, {}, TRUE)
        ELSE IF c.has /\ ~c.json THEN VRaised
        ELSE VResult(TRUE, "Backup is valid",
               ActualCounts(ManifestMetadata(m, is_encrypted), backup_dir),
               warnings, TRUE)

\* A validator that tries to decrypt with whatever password it is given,
\* the missing one included.
ValidateNoHint(file_bytes, password, k) ==
  IF _is_encrypted_backup(file_bytes)
  THEN LET d == try_decrypt_backup(file_bytes, password)
       IN  IF ~d.success
           THEN VResult(FALSE, d.msg, NoMetadata, {}, FALSE)
           ELSE ValidateTar(d.tar, TRUE, k)
  ELSE ValidateTar(Payload(file_bytes), FALSE, k)

\* backup_service.py:195-331.  password "" is None or the empty string.
validate_backup(file_bytes, password, k) ==
  IF _is_encrypted_backup(file_bytes)
  THEN IF password = ""
       THEN VResult(FALSE, "This backup is password-protected. Please provide the password.",
              [NoMetadata EXCEPT !.has = TRUE, !.backup_format_version = "0.2.1+",
                                 !.is_password_protected = TRUE],
              {}, FALSE)
       ELSE LET d == try_decrypt_backup(file_bytes, password)
            IN  IF ~d.success
                THEN VResult(FALSE, d.msg, NoMetadata, {}, FALSE)
                ELSE ValidateTar(d.tar, TRUE, k)
  ELSE ValidateTar(Payload(file_bytes), FALSE, k)


\* ------------------------------------------------------------------ inputs
Passwords == {"", "p1", "p2"}     \* "" : no password given
CreatePasswords == {"p1"}
Salts == {"s1"} \cup GzipSalts     \* values of os.urandom(16)
AdminIds == {"", "u1", "u9"}      \* "" : no current_user_id; u9 names no row

DbA ==
  [exists |-> TRUE, schema |-> TRUE, head |-> TRUE, users |-> {}, sessions |-> {},
   events |-> {[id |-> "e2", user_id |-> "u7"]},
   configs |-> {[id |-> "c2", created_by |-> "u7", key |-> ForeignKey, data |-> "d2"]},
   data |-> "A"]

\* an archive of the current format, made on another instance
DirA ==
  BackupDir("travel_manager_backup_A",
    Declared(Checksummed(Manifest(BACKUP_FORMAT_VERSION, "", FALSE),
                         [has |-> TRUE, header |-> TRUE, db |-> DbA]),
             [has |-> TRUE, header |-> TRUE, db |-> DbA],
             [exists |-> TRUE, files |-> {"a.png"}]),
    [has |-> TRUE, header |-> TRUE, db |-> DbA],
    [exists |-> TRUE, files |-> {"a.png"}],
    [has |-> TRUE, json |-> TRUE,
     list |-> << [id |-> "c2", data |-> "d2"], [id |-> "c3", data |-> ""] >>])

DbB ==
  [exists |-> TRUE, schema |-> TRUE, head |-> FALSE, users |-> {Bob}, sessions |-> {"s9"},
   events |-> {[id |-> "e3", user_id |-> "u2"]},
   configs |-> {[id |-> "c4", created_by |-> "u2", key |-> ForeignKey, data |-> "d4"]},
   data |-> "B"]

\* a legacy (v0.2.0) archive: plain tar.gz, secret_key in the manifest, users
\* and sessions still in its database, an older schema, no avatars
DirB ==
  BackupDir("travel_manager_backup_B", Manifest("0.2.0", ForeignKey, FALSE),
    [has |-> TRUE, header |-> TRUE, db |-> DbB], NoAvatars, NoConfigs)

UploadA == encrypt_backup_archive(Tar("ok", <<DirA>>, {}), "p1", "s1")
UploadB == Plain(Tar("ok", <<DirB>>, {}))
UploadGarbage == Tamper(encrypt_backup_archive(BadTar, "p1", "s1"))
UploadCorrupt == Plain(BadTar)
UploadTampered == Tamper(UploadA)
UploadTraversal ==
  Plain(Tar("ok", <<DirB>>, {Name(FALSE, <<"..", "..", "etc", "passwd">>)}))
UploadAbsolute ==
  encrypt_backup_archive(Tar("ok", <<DirA>>, {Name(TRUE, <<"etc", "passwd">>)}), "p1", "s1")

Uploads ==
  {UploadA, UploadB, UploadGarbage, UploadCorrupt, UploadTampered,
   UploadTraversal, UploadAbsolute}

\* ------------------------------------------------------------------- state
VARIABLES
  db,        \* DB_PATH: the live database file
  avatars,   \* AVATAR_DIR
  env,       \* SECRET_KEY line of ENV_FILE_PATH ("" : none)
  recovery,  \* PRE_RESTORE_BACKUP_DIR: second of the file name -> snapshot tar
  escaped,   \* member names written outside an extraction directory
  clock,     \* datetime.now(UTC), in seconds
  pc,        \* where each caller is in its function
  rs,        \* locals of each perform_restore caller
  rd         \* locals and result of the reader

live == <<db, avatars, env, recovery>>
vars == <<db, avatars, env, recovery, escaped, clock, pc, rs, rd>>

\* migrations_message is the sequence of the texts put into it ("" : <<>>)
NoDetails == [migrations_run |-> FALSE, migrations_message |-> <<>>, configs_imported |-> 0]
NoAdmin == [has |-> FALSE, row |-> NoRow]
NoDir == BackupDir("", NoManifest, NoDbFile, NoAvatars, NoConfigs)
NoResult == [returned |-> FALSE, raised |-> FALSE, success |-> FALSE, message |-> ""]

Returned(success, message) ==
  [returned |-> TRUE, raised |-> FALSE, success |-> success, message |-> message]

RaisedResult(what) ==
  [returned |-> FALSE, raised |-> TRUE, success |-> FALSE, message |-> what]

\* locked: the call was given an envelope and no password (lines 210-211)
RsIdle ==
  [uid |-> "", cookie |-> "", locked |-> FALSE,
   admin |-> NoAdmin, tar |-> BadTar, snapDb |-> NoDb, snapAv |-> NoAvatars,
   dir |-> NoDir, details |-> NoDetails, result |-> NoResult]

NoBytes == Plain(BadTar)
NoInfo == [database_exists |-> FALSE, database_size_bytes |-> 0, avatar_count |-> 0]

RdIdle ==
  [op |-> "none", cookie |-> "", password |-> "", dbfile |-> NoDbFile, configs |-> NoConfigs,
   archive |-> NoBytes, v |-> VResult(FALSE, "", NoMetadata, {}, FALSE), info |-> NoInfo,
   raised |-> FALSE]

InitDbs == {LiveDb0, NoDb}

Init ==
  /\ db \in InitDbs
  /\ avatars = LiveAvatars0
  /\ env = InstanceKey
  /\ recovery = [t \in {} |-> BadTar]
  /\ escaped = {}
  /\ clock = 0
  /\ pc = [p \in Procs |-> "idle"]
  /\ rs = [p \in Restorers |-> RsIdle]
  /\ rd = [p \in Readers |-> RdIdle]

\* Each caller makes one call, and at most two callers take part in a run:
\* r1 with a second restore r2 that arrives once r1 has started, or r1 with
\* the reader (callers are interchangeable, so r1 is the first to start).
Started(p) == pc[p] # "idle"

Admission(p) ==
  /\ p = "r2" => Started("r1") /\ \A b \in Readers : ~Started(b)
  /\ p \in Readers => ~Started("r2")

\* "authed": the request has passed get_current_admin (api/v1/backup.py) and
\* its endpoint function is about to run; "idle": the function is called
\* directly.
MayStart(p) ==
  /\ pc[p] \in {"idle", "authed"}
  /\ Admission(p)

\* The uploads a caller may pass: the fixed ones, any pre-restore snapshot
\* lying in the recovery directory, and the archive create_backup returned.
Inputs ==
  Uploads \cup { Plain(recovery[t]) : t \in DOMAIN recovery }
          \cup { rd[b].archive : b \in { r \in Readers : rd[r].op = "create" /\ pc[r] = "done" /\ ~rd[r].raised } }

Picks(file) == 1..(IF Len(file.tar.dirs) = 0 THEN 1 ELSE Len(file.tar.dirs))


\* ---------------------------------------------------------- perform_restore
\* A lookup whose SELECT has lost its WHERE clause: any row of the users table
\* answers for any id.
AnyUserData(d, user_id) ==
  IF d.schema /\ d.users # {}
  THEN [has |-> TRUE, row |-> CHOOSE u \in d.users : TRUE]
  ELSE NoAdmin

\* backup_service.py:522-535.  The SELECT raises when there is no users table,
\* which is caught: no row, like an id that names none.
_get_user_data(d, user_id) ==
  IF d.schema /\ \E u \in d.users : u.id = user_id
  THEN [has |-> TRUE, row |-> CHOOSE u \in d.users : u.id = user_id]
  ELSE NoAdmin

\* A lookup that opens DB_PATH in every call, whether an id is given or not.
ConnectAlways(d, user_id) == IF ~d.exists THEN EmptyDb ELSE d

\* backup_service.py:525: what sqlite3.connect(DB_PATH) leaves on disk: it
\* creates a missing file, with 0 bytes.  It is reached only when an
\* administrator id is given (line 564).
DbAfterConnect(d, user_id) == IF user_id # "" /\ ~d.exists THEN EmptyDb ELSE d

\* What is left of a call once it is over: its arguments' administrator, the
\* directory it installed, and what it returned.
Finish(p, result) ==
  /\ pc' = [pc EXCEPT ![p] = "done"]
  /\ rs' = [rs EXCEPT ![p] = [RsIdle EXCEPT !.uid = rs[p].uid, !.admin = rs[p].admin,
                                            !.locked = rs[p].locked,
                                            !.dir = rs[p].dir, !.details = rs[p].details,
                                            !.result = result]]

\* backup_service.py:562-586: what the first lines of perform_restore return
\* (NoResult: nothing yet, the call goes on to its snapshot).  The password
\* test and the decryption of lines 576-585 repeat what validate_backup did
\* on the same bytes and never fail after it.
BeginOutcome(d, file_bytes, password, current_user_id, k) ==
  LET admin_data == IF current_user_id # "" THEN _get_user_data(d, current_user_id)
                    ELSE NoAdmin
      v == validate_backup(file_bytes, password, k)
  IN  IF current_user_id # "" /\ ~admin_data.has
      THEN Returned(FALSE, "Failed to get current user data for preservation")
      ELSE IF v.raised THEN RaisedResult(v.message)
      ELSE IF ~v.valid THEN Returned(FALSE, v.message)
      ELSE NoResult

\* backup_service.py:556-586: details, the administrator's row, validation
\* and decryption.
RestoreBeginWith(p, files, ids) ==
  /\ MayStart(p)
  /\ \E file_bytes \in files, password \in Passwords, current_user_id \in ids :
       \E k \in Picks(file_bytes) :
         LET admin_data == IF current_user_id # "" THEN _get_user_data(db, current_user_id)
                           ELSE NoAdmin
             out == BeginOutcome(db, file_bytes, password, current_user_id, k)
             tarball == IF _is_encrypted_backup(file_bytes)
                        THEN try_decrypt_backup(file_bytes, password).tar
                        ELSE Payload(file_bytes)
             fresh == [RsIdle EXCEPT !.uid = current_user_id, !.admin = admin_data,
                                     !.locked = _is_encrypted_backup(file_bytes)
                                                /\ password = ""]
         IN  /\ db' = DbAfterConnect(db, current_user_id)
             /\ IF out # NoResult
                THEN /\ pc' = [pc EXCEPT ![p] = "done"]
                     /\ rs' = [rs EXCEPT ![p] = [fresh EXCEPT !.result = out]]
                ELSE /\ pc' = [pc EXCEPT ![p] = "snap_db"]
                     /\ rs' = [rs EXCEPT ![p] = [fresh EXCEPT !.tar = tarball]]
  /\ UNCHANGED <<avatars, env, recovery, escaped, clock, rd>>

RestoreBegin(p) == pc[p] = "idle" /\ RestoreBeginWith(p, Inputs, AdminIds)

\* backup_service.py:743-749 (_create_unencrypted_backup): sqlite backup of
\* the live file, or the exception that line 598 turns into a failure.
SnapshotDb(p) ==
  /\ pc[p] = "snap_db"
  /\ \/ /\ pc' = [pc EXCEPT ![p] = "snap_av"]
        /\ rs' = [rs EXCEPT ![p].snapDb = db]
     \/ Finish(p, Returned(FALSE, "Failed to create pre-restore backup"))
  /\ UNCHANGED <<db, avatars, env, recovery, escaped, clock, rd>>

\* backup_service.py:751-753
CopyOfAvatars(a) == IF a.exists /\ a.files # {} THEN a ELSE NoAvatars

SnapshotAvatars(p) ==
  /\ pc[p] = "snap_av"
  /\ pc' = [pc EXCEPT ![p] = "snap_write"]
  /\ rs' = [rs EXCEPT ![p].snapAv = CopyOfAvatars(avatars)]
  /\ UNCHANGED <<db, avatars, env, recovery, escaped, clock, rd>>

\* backup_service.py:755-785: the tar of an internal backup
SnapshotTar(d, a) ==
  Tar("ok",
      << BackupDir("travel_manager_backup",
                   Declared(Checksummed(Manifest(BACKUP_FORMAT_VERSION, "", TRUE),
                                        [has |-> d.exists, header |-> d.schema, db |-> d]),
                            [has |-> d.exists, header |-> d.schema, db |-> d], a),
                   [has |-> d.exists, header |-> d.schema, db |-> d], a, NoConfigs) >>,
      {})

\* backup_service.py:592-597: open(..., "wb") on pre_restore_<second>.tar.gz
WriteSnapshot(dir, second, t) ==
  [x \in DOMAIN dir \cup {second} |-> IF x = second THEN t ELSE dir[x]]

SnapshotWrite(p) ==
  /\ pc[p] = "snap_write"
  /\ \/ /\ recovery' = WriteSnapshot(recovery, clock, SnapshotTar(rs[p].snapDb, rs[p].snapAv))
        /\ pc' = [pc EXCEPT ![p] = "extract"]
        /\ rs' = [rs EXCEPT ![p].snapDb = NoDb, ![p].snapAv = NoAvatars]
     \/ /\ Finish(p, Returned(FALSE, "Failed to create pre-restore backup"))
        /\ UNCHANGED recovery
  /\ UNCHANGED <<db, avatars, env, escaped, clock, rd>>

\* What tar.extractall(temp_dir) of line 609, which names no filter, writes
\* outside temp_dir.  Up to Python 3.13 the default is to trust the archive;
\* from 3.14 on it is the "data" filter, which makes an absolute name relative
\* and raises on a name that leaves the destination.
ExtractedOutside(t, trusted) ==
  IF trusted THEN { n \in MemberNames(t) : Escapes(n) } ELSE {}

ExtractRaises(t, trusted) ==
  ~trusted /\ \E n \in MemberNames(t) : ~n.abs /\ Escapes(n)

\* backup_service.py:603-626: tar.extractall(temp_dir) with no check of the
\* member names, subdirs[0], the two json.load calls.
RestoreExtract(p) ==
  /\ pc[p] = "extract"
  /\ LET t == rs[p].tar IN
       IF t.parse # "ok"
       THEN /\ Finish(p, RaisedResult("ReadError"))
            /\ UNCHANGED escaped
       ELSE \E trusted \in BOOLEAN :
            /\ escaped' = escaped \cup ExtractedOutside(t, trusted)
            /\ IF ExtractRaises(t, trusted)
               THEN Finish(p, RaisedResult("OutsideDestinationError"))
               ELSE IF Len(t.dirs) = 0
               THEN Finish(p, RaisedResult("IndexError"))
               ELSE \E k \in 1..Len(t.dirs) :
                      LET backup_dir == t.dirs[k] IN
                        IF \/ backup_dir.configs.has /\ ~backup_dir.configs.json
                           \/ backup_dir.manifest.has /\ ~backup_dir.manifest.json
                        THEN Finish(p, RaisedResult("JSONDecodeError"))
                        ELSE /\ pc' = [pc EXCEPT ![p] = "copy_db"]
                             /\ rs' = [rs EXCEPT ![p].dir = backup_dir, ![p].tar = BadTar]
  /\ UNCHANGED <<db, avatars, env, recovery, clock, rd>>

\* backup_service.py:629-631: shutil.copy2 opens DB_PATH for writing, which
\* truncates it, ...
CopyDbOpen(p) ==
  /\ pc[p] = "copy_db"
  /\ IF ~rs[p].dir.dbfile.has
     THEN /\ Finish(p, RaisedResult("FileNotFoundError"))
          /\ UNCHANGED db
     ELSE /\ db' = EmptyDb
          /\ pc' = [pc EXCEPT ![p] = "copy_db_write"]
          /\ UNCHANGED rs
  /\ UNCHANGED <<avatars, env, recovery, escaped, clock, rd>>

\* ... and then writes the extracted file into it.
CopyDbWrite(p) ==
  /\ pc[p] = "copy_db_write"
  /\ db' = [rs[p].dir.dbfile.db EXCEPT !.exists = TRUE]
  /\ pc' = [pc EXCEPT ![p] = "avatars"]
  /\ UNCHANGED <<avatars, env, recovery, escaped, clock, rs, rd>>

\* A restore that leaves the avatar directory alone when the archive brings
\* no avatars.
AvatarsKeep(p) ==
  /\ pc[p] = "avatars"
  /\ pc' = [pc EXCEPT ![p] = IF rs[p].dir.avatars.exists THEN "avatars_copy" ELSE "migrate"]
  /\ avatars' = IF rs[p].dir.avatars.exists THEN NoAvatars ELSE avatars
  /\ UNCHANGED <<db, env, recovery, escaped, clock, rs, rd>>

\* backup_service.py:634-641: the rmtree of either branch
AvatarsRemove(p) ==
  /\ pc[p] = "avatars"
  /\ IF rs[p].dir.avatars.exists
     THEN /\ avatars' = NoAvatars
          /\ pc' = [pc EXCEPT ![p] = "avatars_copy"]
     ELSE IF avatars.exists
     THEN /\ avatars' = NoAvatars
          /\ pc' = [pc EXCEPT ![p] = "avatars_mkdir"]
     ELSE /\ UNCHANGED avatars
          /\ pc' = [pc EXCEPT ![p] = "migrate"]
  /\ UNCHANGED <<db, env, recovery, escaped, clock, rs, rd>>

\* backup_service.py:638: copytree raises FileExistsError on an existing target
AvatarsCopy(p) ==
  /\ pc[p] = "avatars_copy"
  /\ IF avatars.exists
     THEN /\ Finish(p, RaisedResult("FileExistsError"))
          /\ UNCHANGED avatars
     ELSE /\ avatars' = rs[p].dir.avatars
          /\ pc' = [pc EXCEPT ![p] = "migrate"]
          /\ UNCHANGED rs
  /\ UNCHANGED <<db, env, recovery, escaped, clock, rd>>

\* backup_service.py:642: mkdir(parents=True, exist_ok=True)
AvatarsMkdir(p) ==
  /\ pc[p] = "avatars_mkdir"
  /\ avatars' = IF avatars.exists THEN avatars ELSE [exists |-> TRUE, files |-> {}]
  /\ pc' = [pc EXCEPT ![p] = "migrate"]
  /\ UNCHANGED <<db, env, recovery, escaped, clock, rs, rd>>


\* backup_service.py:334-349 and 645-647: alembic upgrade head on the live
\* database; it succeeds or raises, and a failure is only recorded.
MigrationWipes(d, ok) ==
  IF ok THEN [d EXCEPT !.exists = TRUE, !.schema = TRUE, !.head = TRUE] ELSE NoDb

_run_migrations(d, ok) ==
  IF ok THEN [d EXCEPT !.exists = TRUE, !.schema = TRUE, !.head = TRUE] ELSE d

Migrate(p) ==
  /\ pc[p] = "migrate"
  /\ \E ok \in BOOLEAN :
       /\ db' = _run_migrations(db, ok)
       /\ rs' = [rs EXCEPT ![p].details.migrations_run = ok,
                           ![p].details.migrations_message =
                              IF ok THEN <<"Migrations completed successfully">>
                              ELSE <<"Migration failed">>]
  /\ pc' = [pc EXCEPT ![p] = "import"]
  /\ UNCHANGED <<avatars, env, recovery, escaped, clock, rd>>

\* The exports that end up as rows: config_data is not null (line 379) and
\* the INSERT does not hit the primary key of a row inserted before it.
Imported(list) ==
  { i \in 1..Len(list) :
      /\ list[i].data # ""
      /\ \A j \in 1..(i - 1) : ~(list[j].data # "" /\ list[j].id = list[i].id) }

\* backup_service.py:352-427.  Without the table the DELETE raises and
\* nothing is imported; rows are encrypted under the current instance key.
\* An import that reports every export of the list as imported.
CountsEveryExport(d, list, admin_id) ==
  IF ~d.schema THEN [db |-> d, imported |-> 0]
  ELSE [db |-> [d EXCEPT !.configs =
                  { [id |-> list[i].id, created_by |-> admin_id,
                     key |-> InstanceKey, data |-> list[i].data] : i \in Imported(list) }],
        imported |-> Len(list)]

ImportKeepsRows(d, list, admin_id) ==
  IF ~d.schema THEN [db |-> d, imported |-> 0]
  ELSE [db |-> [d EXCEPT !.configs = d.configs \cup
                  { [id |-> list[i].id, created_by |-> admin_id,
                     key |-> InstanceKey, data |-> list[i].data] : i \in Imported(list) }],
        imported |-> Cardinality(Imported(list))]

_import_integration_configs(d, list, admin_id) ==
  IF ~d.schema THEN [db |-> d, imported |-> 0]
  ELSE [db |-> [d EXCEPT !.configs =
                  { [id |-> list[i].id, created_by |-> admin_id,
                     key |-> InstanceKey, data |-> list[i].data] : i \in Imported(list) }],
        imported |-> Cardinality(Imported(list))]

LegacyNote ==
  " Note: Legacy backup restored with original SECRET_KEY. Consider creating a new password-protected backup."

\* An import step that never touches the .env file.
ImportForgetsKey(p) ==
  /\ pc[p] = "import"
  /\ LET integration_configs == rs[p].dir.configs.list
         r == _import_integration_configs(db, integration_configs, rs[p].admin.row.id)
     IN  IF Len(integration_configs) > 0 /\ rs[p].admin.has
         THEN /\ db' = r.db
              /\ rs' = [rs EXCEPT ![p].details.configs_imported = r.imported]
         ELSE UNCHANGED <<db, rs>>
  /\ pc' = [pc EXCEPT ![p] = "admin"]
  /\ UNCHANGED <<avatars, env, recovery, escaped, clock, rd>>

\* backup_service.py:649-669
ImportConfigs(p) ==
  /\ pc[p] = "import"
  /\ LET integration_configs == rs[p].dir.configs.list
         backup_secret_key == rs[p].dir.manifest.secret_key
         r == _import_integration_configs(db, integration_configs, rs[p].admin.row.id)
     IN  IF Len(integration_configs) > 0 /\ rs[p].admin.has
         THEN /\ db' = r.db
              /\ rs' = [rs EXCEPT ![p].details.configs_imported = r.imported]
              /\ UNCHANGED env
         ELSE IF backup_secret_key # ""
         THEN /\ env' = backup_secret_key
              /\ rs' = [rs EXCEPT ![p].details.migrations_message = Append(@, LegacyNote)]
              /\ UNCHANGED db
         ELSE UNCHANGED <<db, env, rs>>
  /\ pc' = [pc EXCEPT ![p] = "admin"]
  /\ UNCHANGED <<avatars, recovery, escaped, clock, rd>>

\* The INSERT of lines 682-703 succeeds when users has the columns it names
\* and no row holds the same id (primary key) or username/email (unique).
InsertFails(d, row) ==
  \/ ~d.schema
  \/ ~d.head
  \/ \E u \in d.users : u.id = row.id \/ u.username = row.username

\* backup_service.py:675-717: INSERT the administrator, repoint events and
\* integration_configs, commit.
InsertAdmin(d, row) ==
  [d EXCEPT !.users = d.users \cup {[row EXCEPT !.is_admin = TRUE, !.is_active = TRUE]},
            !.events = { [e EXCEPT !.user_id = row.id] : e \in d.events },
            !.configs = { [c EXCEPT !.created_by = row.id] : c \in d.configs }]

\* backup_service.py:671-730
ReinsertAdmin(p) ==
  /\ pc[p] = "admin"
  /\ IF rs[p].admin.has
     THEN IF InsertFails(db, rs[p].admin.row)
          THEN /\ Finish(p, Returned(FALSE, "Restore failed: could not restore admin user"))
               /\ UNCHANGED db
          ELSE /\ db' = InsertAdmin(db, rs[p].admin.row)
               /\ Finish(p, Returned(TRUE, "Restore completed"))
     ELSE /\ Finish(p, Returned(TRUE, "Restore completed"))
          /\ UNCHANGED db
  /\ UNCHANGED <<avatars, env, recovery, escaped, clock, rd>>

\* ------------------------------------------------------------ create_backup
RECURSIVE SeqOf(_)
SeqOf(S) == IF S = {} THEN <<>> ELSE LET x == CHOOSE y \in S : TRUE IN <<x>> \o SeqOf(S \ {x})

\* backup_service.py:55-93: one export per row, config_data null when the
\* stored ciphertext does not decrypt under the current instance key.
_export_integration_configs(d) ==
  LET rows == SeqOf(d.configs) IN
    [i \in 1..Len(rows) |->
       [id |-> rows[i].id,
        data |-> IF rows[i].key = InstanceKey THEN rows[i].data ELSE ""]]

\* A packager that forgets the second DELETE.
KeepSessions(d) == [d EXCEPT !.users = {}]

\* backup_service.py:122-128
StripUsers(d) == [d EXCEPT !.users = {}, !.sessions = {}]

\* A packager whose DELETEs run on DB_PATH instead of on the copy.
StripInPlace(d) == IF d.schema THEN StripUsers(d) ELSE d

\* backup_service.py:114-128: the live file after create_backup has read it.
\* The backup API only reads DB_PATH; the DELETEs run on the copy (dest_db).
DbAfterBackup(d) == d

\* backup_service.py:106-134: online backup of the live file into the
\* scratch directory, DELETE FROM users / sessions there, export of the configs.
CreateBackupDb(b) ==
  /\ MayStart(b)
  /\ \E password \in CreatePasswords :
       LET fresh == [RdIdle EXCEPT !.op = "create", !.password = password] IN
         IF ~db.exists
         THEN /\ pc' = [pc EXCEPT ![b] = "bk_avatars"]
              /\ rd' = [rd EXCEPT ![b] = fresh]
         ELSE IF ~db.schema
         THEN /\ pc' = [pc EXCEPT ![b] = "done"]
              /\ rd' = [rd EXCEPT ![b] = [fresh EXCEPT !.raised = TRUE]]
         ELSE /\ pc' = [pc EXCEPT ![b] = "bk_avatars"]
              /\ rd' = [rd EXCEPT ![b] = [fresh EXCEPT
                     !.dbfile = [has |-> TRUE, header |-> TRUE, db |-> StripUsers(db)],
                     !.configs = [has |-> TRUE, json |-> TRUE,
                                  list |-> _export_integration_configs(StripUsers(db))]]]
  /\ db' = DbAfterBackup(db)
  /\ UNCHANGED <<avatars, env, recovery, escaped, clock, rs>>

\* backup_service.py:136-179: copy of the avatars, manifest, tar, encryption
\* under a fresh salt, salt || ciphertext.
CreateBackupAvatars(b) ==
  /\ pc[b] = "bk_avatars"
  /\ \E salt \in Salts :
       LET backup_dir == BackupDir("travel_manager_backup",
                           Declared(Checksummed(Manifest(BACKUP_FORMAT_VERSION, "", FALSE),
                                                rd[b].dbfile),
                                    rd[b].dbfile, CopyOfAvatars(avatars)),
                           rd[b].dbfile, CopyOfAvatars(avatars), rd[b].configs)
       IN  rd' = [rd EXCEPT ![b].archive =
                    encrypt_backup_archive(Tar("ok", <<backup_dir>>, {}), rd[b].password, salt)]
  /\ pc' = [pc EXCEPT ![b] = "done"]
  /\ UNCHANGED <<db, avatars, env, recovery, escaped, clock, rs>>

\* ------------------------------------------- validate_backup, get_backup_info
\* keep: the arguments stay on record next to the result.
ValidateWith(b, files, keep) ==
  /\ MayStart(b)
  /\ \E file_bytes \in files, password \in Passwords :
       \E k \in Picks(file_bytes) :
         rd' = [rd EXCEPT ![b] = [RdIdle EXCEPT !.op = "validate",
                                   !.archive = IF keep THEN file_bytes ELSE NoBytes,
                                   !.password = IF keep THEN password ELSE "",
                                   !.v = validate_backup(file_bytes, password, k)]]
  /\ pc' = [pc EXCEPT ![b] = "done"]
  /\ UNCHANGED <<db, avatars, env, recovery, escaped, clock, rs>>

Validate(b) == ValidateWith(b, Inputs, FALSE)

\* backup_service.py:42-52
get_backup_info(d, a) ==
  [database_exists |-> d.exists,
   database_size_bytes |-> IF d.exists THEN DbSize(d) ELSE 0,
   avatar_count |-> IF a.exists THEN Cardinality(a.files) ELSE 0]

GetInfo(b) ==
  /\ MayStart(b)
  /\ rd' = [rd EXCEPT ![b] = [RdIdle EXCEPT !.op = "info", !.info = get_backup_info(db, avatars)]]
  /\ pc' = [pc EXCEPT ![b] = "done"]
  /\ UNCHANGED <<db, avatars, env, recovery, escaped, clock, rs>>

\* ------------------------------------------------------------------- clock
Tick ==
  /\ clock < MaxClock
  /\ clock' = clock + 1
  /\ UNCHANGED <<db, avatars, env, recovery, escaped, pc, rs, rd>>

\* perform_restore after its first lines
RestoreSteps(p) ==
  \/ SnapshotDb(p) \/ SnapshotAvatars(p) \/ SnapshotWrite(p)
  \/ RestoreExtract(p) \/ CopyDbOpen(p) \/ CopyDbWrite(p)
  \/ AvatarsRemove(p) \/ AvatarsCopy(p) \/ AvatarsMkdir(p)
  \/ Migrate(p) \/ ImportConfigs(p) \/ ReinsertAdmin(p)

Restore(p) == RestoreBegin(p) \/ RestoreSteps(p)

Read(b) ==
  \/ CreateBackupDb(b) \/ CreateBackupAvatars(b) \/ Validate(b) \/ GetInfo(b)

Next ==
  \/ \E p \in Restorers : Restore(p)
  \/ \E b \in Readers : Read(b)
  \/ Tick

Spec == Init /\ [][Next]_vars

\* The extraction step of perform_restore (lines 603-609) on its own: a call
\* that has written its snapshot and is about to extract a gzip payload, for
\* every payload of the uploads, whatever validation would say of it.
Payloads == { u.tar : u \in Uploads }

InitExtract ==
  /\ db \in InitDbs
  /\ avatars = LiveAvatars0
  /\ env = InstanceKey
  /\ recovery = WriteSnapshot([t \in {} |-> BadTar], 0,
                              SnapshotTar(db, CopyOfAvatars(avatars)))
  /\ escaped = {}
  /\ clock = 0
  /\ pc = [p \in Procs |-> IF p = "r1" THEN "extract" ELSE "idle"]
  /\ \E t \in Payloads : rs = [p \in Restorers |->
                                  IF p = "r1" THEN [RsIdle EXCEPT !.tar = t] ELSE RsIdle]
  /\ rd = [p \in Readers |-> RdIdle]

SpecExtract == InitExtract /\ [][Next]_vars


\* ------------------------------------------- backup, later writes, restore
\* A backup taken from live state S, the application then writing to the
\* live state (an event created, api/v1/events.py:48; avatars uploaded or
\* deleted, api/v1/auth.py:184-257), and one restore after that.
EmptyAvatarDir == [exists |-> TRUE, files |-> {}]

RoundTripAvatars == {LiveAvatars0, EmptyAvatarDir}

LaterDbs ==
  { [LiveDb0 EXCEPT !.events = @ \cup {[id |-> "e9", user_id |-> "u1"]}, !.data = "L2"],
    [LiveDb0 EXCEPT !.events = {}, !.data = "L3",
                    !.configs = @ \cup {[id |-> "c9", created_by |-> "u1",
                                         key |-> InstanceKey, data |-> "d9"]}] }

LaterAvatars ==
  { LiveAvatars0, EmptyAvatarDir, NoAvatars,
    [exists |-> TRUE, files |-> {"me.png", "new.png"}],
    [exists |-> TRUE, files |-> {"new.png"}] }

InitRoundTrip ==
  /\ db = LiveDb0
  /\ avatars \in RoundTripAvatars
  /\ env = InstanceKey
  /\ recovery = [t \in {} |-> BadTar]
  /\ escaped = {}
  /\ clock = 0
  /\ pc = [p \in Procs |-> "idle"]
  /\ rs = [p \in Restorers |-> RsIdle]
  /\ rd = [p \in Readers |-> RdIdle]

\* The live state is as the backup found it: nothing wrote since.
StillS == db = LiveDb0 /\ \A p \in Restorers : pc[p] = "idle"

AppWrites ==
  /\ StillS
  /\ \A b \in Readers : pc[b] = "done"
  /\ db' \in LaterDbs
  /\ avatars' \in LaterAvatars
  /\ UNCHANGED <<env, recovery, escaped, clock, pc, rs, rd>>

\* a restore called once the backup has been returned
RestoreAfterBackup(p) ==
  /\ \A b \in Readers : pc[b] = "done"
  /\ RestoreBegin(p)

NextRoundTrip ==
  \/ \E b \in Readers : CreateBackupDb(b) \/ CreateBackupAvatars(b)
  \/ AppWrites
  \/ RestoreAfterBackup("r1")
  \/ RestoreSteps("r1")
  \/ Tick

SpecRoundTrip == InitRoundTrip /\ [][NextRoundTrip]_vars


\* ------------------------------------------------ one upload, every shape
\* validate_backup and perform_restore as functions of the uploaded bytes:
\* one upload, drawn from archives of every shape the code tells apart, is
\* validated and restored.
\* a database file without the SQLite header
DirBadHeader ==
  [DirB EXCEPT !.name = "not_sqlite",
               !.dbfile = [has |-> TRUE, header |-> FALSE,
                           db |-> [EmptyDb EXCEPT !.data = "junk"]]]

\* a manifest that declares a size and a count the files do not have
DirLying == [DirB EXCEPT !.manifest.db_size_bytes = 99, !.manifest.avatar_count = 7]

Given ==
  LET \* a legacy directory without manifest.json, with two avatars
      DirNoManifest ==
        BackupDir("old_backup", NoManifest, [has |-> TRUE, header |-> TRUE, db |-> DbB],
                  [exists |-> TRUE, files |-> {"x.png", "y.png"}], NoConfigs)
      \* manifest.json, integration_configs.json that json.load rejects
      DirBadManifest == [DirB EXCEPT !.manifest.json = FALSE]
      DirBadConfigs == [DirA EXCEPT !.configs.json = FALSE]
      \* no travel_manager.db
      DirNoDb == [DirB EXCEPT !.dbfile = NoDbFile]
      \* exports of which one has no config_data and one repeats the id of
      \* another, so that its INSERT fails on the primary key
      DirDup ==
        [DirA EXCEPT !.name = "travel_manager_backup_D",
                     !.configs.list = << [id |-> "c2", data |-> "d2"], [id |-> "c3", data |-> ""],
                                         [id |-> "c2", data |-> "d2b"], [id |-> "c5", data |-> "d5"] >>]
      \* a manifest with a secret_key next to an integration_configs.json
      DirBoth ==
        [DirB EXCEPT !.name = "travel_manager_backup_K",
                     !.configs = [has |-> TRUE, json |-> TRUE,
                                  list |-> << [id |-> "c4", data |-> "d4"] >>]]
  IN
  { UploadA, UploadB, UploadCorrupt, UploadGarbage,
    Plain(Tar("eof_error", <<>>, {})),
    Plain(Tar("ok", <<>>, {})),
    Plain(Tar("ok", <<DirA>>, {})),
    Plain(Tar("ok", <<DirNoManifest>>, {})),
    Plain(Tar("ok", <<DirBadManifest>>, {})),
    encrypt_backup_archive(Tar("ok", <<DirBadConfigs>>, {}), "p1", "s1"),
    encrypt_backup_archive(Tar("ok", <<DirDup>>, {}), "p1", "s1"),
    Plain(Tar("ok", <<DirNoDb>>, {})),
    Plain(Tar("ok", <<DirBadHeader>>, {})),
    Plain(Tar("ok", <<DirB, DirBadHeader>>, {})),
    Plain(Tar("ok", <<DirLying>>, {})),
    Plain(Tar("ok", <<DirBoth>>, {})),
    Plain(SnapshotTar(LiveDb0, LiveAvatars0)) }

InitUpload ==
  /\ db = LiveDb0
  /\ avatars = LiveAvatars0
  /\ env = InstanceKey
  /\ recovery = [t \in {} |-> BadTar]
  /\ escaped = {}
  /\ clock = 0
  /\ pc = [p \in Procs |-> "idle"]
  /\ rs = [p \in Restorers |-> RsIdle]
  /\ \E a \in Given : rd = [p \in Readers |-> [RdIdle EXCEPT !.archive = a]]

\* the upload of the run: the given one, or the archive create_backup has
\* just returned
TheUpload == { rd[b].archive : b \in Readers }

\* validate_backup on the archive create_backup returned
ValidateCreated(b) ==
  /\ pc[b] = "done" /\ rd[b].op = "create" /\ ~rd[b].raised
  /\ rd[b].v = RdIdle.v
  /\ \E password \in Passwords :
       rd' = [rd EXCEPT ![b].v = validate_backup(rd[b].archive, password, 1)]
  /\ UNCHANGED <<db, avatars, env, recovery, escaped, clock, pc, rs>>

ValidateGiven(b) == ValidateWith(b, {rd[b].archive}, TRUE)

RestoreGiven(p) == RestoreBeginWith(p, TheUpload, AdminIds)

NextUpload ==
  \/ \E b \in Readers : ValidateGiven(b)
  \/ \E b \in Readers : CreateBackupDb(b) \/ CreateBackupAvatars(b) \/ ValidateCreated(b)
  \/ RestoreGiven("r1")
  \/ RestoreSteps("r1")
  \/ Tick

SpecUpload == InitUpload /\ [][NextUpload]_vars


\* ------------------------------------------------------ the backup endpoints
\* api/deps.py and api/v1/backup.py: every endpoint depends on
\* get_current_admin, which runs before the endpoint function.
\* The rows of the sessions table, by token: db.sessions holds the tokens.
SessionUser(token) ==
  CASE token = "s1" -> "u1"
    [] token = "s2" -> "u2"
    [] token = "s3" -> "u3"
    [] token = "sx" -> "u1"
    [] token = "s9" -> "u2"
    [] OTHER -> ""

SESSION_EXPIRY_DAYS == 7

\* expires_at in seconds of the clock: "sx" was due before the run began, the
\* others were created at second 0
ExpiresAt(token) == IF token = "sx" THEN -1 ELSE SESSION_EXPIRY_DAYS * 86400

\* services/auth_service.py:106-115: a due session is deleted and committed
get_session(d, token, now) ==
  IF token \notin d.sessions THEN [has |-> FALSE, user_id |-> "", db |-> d]
  ELSE IF ExpiresAt(token) < now
  THEN [has |-> FALSE, user_id |-> "", db |-> [d EXCEPT !.sessions = @ \ {token}]]
  ELSE [has |-> TRUE, user_id |-> SessionUser(token), db |-> d]

\* api/deps.py:24-48.  Without the tables the query raises (status 500);
\* opening a missing file creates it.
get_current_user(d, session, now) ==
  IF session = "" THEN [status |-> "401", user |-> NoRow, db |-> d]
  ELSE IF ~d.schema
  THEN [status |-> "500", user |-> NoRow, db |-> IF d.exists THEN d ELSE EmptyDb]
  ELSE LET session_obj == get_session(d, session, now)
           found == { u \in d.users : u.id = session_obj.user_id }
       IN  IF ~session_obj.has
           THEN [status |-> "401", user |-> NoRow, db |-> session_obj.db]
           ELSE IF found = {} \/ ~(CHOOSE u \in found : TRUE).is_active
           THEN [status |-> "401", user |-> NoRow, db |-> d]
           ELSE [status |-> "200", user |-> CHOOSE u \in found : TRUE, db |-> d]

\* A dependency that lets every authenticated user through.
AnyUserIsAdmin(d, session, now) == get_current_user(d, session, now)

\* api/deps.py:51-61
get_current_admin(d, session, now) ==
  LET r == get_current_user(d, session, now) IN
    IF r.status = "200" /\ ~r.user.is_admin
    THEN [r EXCEPT !.status = "403", !.user = NoRow]
    ELSE r

ApiDb ==
  [LiveDb0 EXCEPT !.users = {Admin1, Bob, Carol}, !.sessions = {"s1", "s2", "s3", "sx"}]

\* one request to the restore endpoint and one to another endpoint
Requests == {"r1"} \cup Readers

InitApi ==
  /\ db = ApiDb
  /\ avatars = LiveAvatars0
  /\ env = InstanceKey
  /\ recovery = [t \in {} |-> BadTar]
  /\ escaped = {}
  /\ clock = 0
  /\ pc = [p \in Procs |-> "idle"]
  /\ rs = [p \in Restorers |-> RsIdle]
  /\ rd = [p \in Readers |-> RdIdle]

\* The dependency of a request: the answer 401, 403 or 500 ends it, else its
\* endpoint function runs next.  The session cookie of a request: none, those
\* of admin, bob and the inactive carol, a due one, and one that names no row.
Authenticate(p) ==
  /\ pc[p] = "idle"
  /\ Admission(p)
  /\ \E session \in {"", "s1", "s2", "s3", "sx", "zz"} :
       LET a == get_current_admin(db, session, clock) IN
         /\ db' = a.db
         /\ pc' = [pc EXCEPT ![p] = IF a.status = "200" THEN "authed" ELSE a.status]
         /\ IF p \in Restorers
            THEN /\ rs' = [rs EXCEPT ![p] = [RsIdle EXCEPT !.cookie = session,
                                                            !.uid = a.user.id]]
                 /\ UNCHANGED rd
            ELSE /\ \E op \in {"info", "create", "validate"} :
                      rd' = [rd EXCEPT ![p] = [RdIdle EXCEPT !.cookie = session, !.op = op]]
                 /\ UNCHANGED rs
  /\ UNCHANGED <<avatars, env, recovery, escaped, clock>>

\* api/v1/backup.py:23-30
ApiInfo(b) == pc[b] = "authed" /\ rd[b].op = "info" /\ GetInfo(b)

\* api/v1/backup.py:33-56
ApiCreate(b) == pc[b] = "authed" /\ rd[b].op = "create" /\ CreateBackupDb(b)

\* api/v1/backup.py:59-101
ApiValidate(b) == pc[b] = "authed" /\ rd[b].op = "validate" /\ Validate(b)

\* api/v1/backup.py:104-136: current_user_id is the id of the session's user
ApiRestore(p) == pc[p] = "authed" /\ RestoreBeginWith(p, Inputs, {rs[p].uid})

NextApi ==
  \/ \E p \in Requests : Authenticate(p)
  \/ \E b \in Readers : ApiInfo(b) \/ ApiCreate(b) \/ CreateBackupAvatars(b) \/ ApiValidate(b)
  \/ ApiRestore("r1")
  \/ RestoreSteps("r1")
  \/ Tick

SpecApi == InitApi /\ [][NextApi]_vars


\* ================================================================== claims
InFlight(p) == pc[p] \notin {"idle", "done"}

\* From the truncation of DB_PATH (line 631) to the return.
Mutating(p) ==
  pc[p] \in {"copy_db_write", "avatars", "avatars_copy", "avatars_mkdir",
             "migrate", "import", "admin"}

Succeeded(p) == pc[p] = "done" /\ rs[p].result.returned /\ rs[p].result.success

\* p is the only perform_restore of the run
Alone(p) == \A q \in Restorers \ {p} : pc[q] = "idle"

\* C1: at most one perform_restore is in flight at any time: a restore
\* attempted while another one is between its start and its return is
\* rejected, so two callers are never both past their start.
C1_OneRestoreInFlight ==
  \A p, q \in Restorers : p # q => ~(InFlight(p) /\ InFlight(q))

\* The avatar directory perform_restore leaves for an extracted directory
\* (lines 634-642): the archive's avatars, or an emptied directory.
InstalledAvatars(dir) == IF dir.avatars.exists THEN dir.avatars.files ELSE {}

\* The ids of the integration_configs rows a restore of dir by p leaves.
InstalledConfigs(p) ==
  IF Len(rs[p].dir.configs.list) > 0 /\ rs[p].admin.has
  THEN { rs[p].dir.configs.list[i].id : i \in Imported(rs[p].dir.configs.list) }
  ELSE { c.id : c \in rs[p].dir.dbfile.db.configs }

ResultOf(p) ==
  /\ db.data = rs[p].dir.dbfile.db.data
  /\ db.events = IF rs[p].admin.has
                 THEN { [e EXCEPT !.user_id = rs[p].uid] : e \in rs[p].dir.dbfile.db.events }
                 ELSE rs[p].dir.dbfile.db.events
  /\ avatars.files = InstalledAvatars(rs[p].dir)
  /\ { c.id : c \in db.configs } = InstalledConfigs(p)
  /\ rs[p].admin.has => rs[p].admin.row.id \in { u.id : u \in db.users }

\* C2: when two perform_restore calls overlap, the final live state is the
\* result of restoring exactly one of the two archives, never a combination:
\* once every restore of the run has returned success, the database, avatars,
\* integration_configs rows and user row are those of one call.
C2_ResultOfOneArchive ==
  (\A p \in Restorers : Succeeded(p)) => \E p \in Restorers : ResultOf(p)

\* C3: create_backup (and the pre-restore snapshot of another restore) never
\* runs concurrently with the mutating phase of perform_restore: no packager
\* is between its read of the database and its read of the avatars while a
\* restore is overwriting them.
C3_PackagerExcludesRestore ==
  \A r \in Restorers :
    Mutating(r) =>
      /\ \A b \in Readers : pc[b] # "bk_avatars"
      /\ \A q \in Restorers \ {r} : pc[q] # "snap_av"

\* C4: after perform_restore(archive, password, admin_id) returns success the
\* live users table has exactly one row, its id is admin_id, and every
\* events.user_id and integration_configs.created_by is admin_id.
C4_OnlyTheAdministrator ==
  \A p \in Restorers :
    (Succeeded(p) /\ Alone(p) /\ rs[p].uid # "") =>
      /\ Cardinality(db.users) = 1
      /\ \A u \in db.users : u.id = rs[p].uid
      /\ \A e \in db.events : e.user_id = rs[p].uid
      /\ \A c \in db.configs : c.created_by = rs[p].uid

\* C5: after any perform_restore call returns, successfully or not, on a live
\* database that held the calling administrator's row before the call, the
\* live database still holds an administrator row.
C5_AnAdministratorRemains ==
  \A p \in Restorers :
    (pc[p] = "done" /\ Alone(p) /\ rs[p].admin.has) =>
      \E u \in db.users : u.is_admin


\* C6: the first write to the live database file or avatar directory happens
\* only after a pre-restore snapshot holding the live database and avatars as
\* they are at that moment has been written to the recovery directory: when a
\* call is about to truncate a DB_PATH that holds data, some snapshot file
\* holds what is live.
C6_SnapshotHoldsWhatIsOverwritten ==
  \A p \in Restorers :
    (pc[p] = "copy_db" /\ db.schema) =>
      \E t \in DOMAIN recovery :
        recovery[t] = SnapshotTar(db, CopyOfAvatars(avatars))

ArchiveFailures ==
  {"This backup is password-protected. Please provide the password.",
   "Password required for encrypted backup",
   "Invalid password or corrupted backup",
   "Invalid or corrupted backup file",
   "Invalid backup file: contains unsafe paths",
   "Backup archive is empty",
   "No database file found in backup",
   "Database file is not a valid SQLite database"}

\* p's call starts in this step
Begins(p) == pc[p] = "idle" /\ pc'[p] # "idle"

\* C7: whenever perform_restore returns failure because the archive is
\* invalid, the password is missing or wrong, or decryption fails, the live
\* database, the avatar directory, .env and the recovery directory are as
\* before the call, and the details are (false, "", 0).
C7_RejectedArchiveTouchesNothing ==
  [][ \A p \in Restorers :
        (Begins(p) /\ rs'[p].result.message \in ArchiveFailures) =>
          /\ pc'[p] = "done"
          /\ rs'[p].result.returned /\ ~rs'[p].result.success
          /\ rs'[p].details = NoDetails
          /\ live' = live ]_vars

C7_Witness ==
  \E p \in Restorers :
    /\ pc[p] = "done"
    /\ rs[p].result.message = "Invalid password or corrupted backup"
    /\ db = LiveDb0 /\ avatars = LiveAvatars0

C10_ReadersChangeNothing ==
  [][ (\E b \in Readers : pc'[b] # pc[b]) => live' = live ]_vars

C10_Witness ==
  \E b \in Readers :
    /\ pc[b] = "done"
    /\ rd[b].op = "create"
    /\ ~rd[b].raised
    /\ Len(rd[b].archive.tar.dirs) = 1
    /\ rd[b].archive.tar.dirs[1].dbfile.db = StripUsers(LiveDb0)
    /\ db = LiveDb0

\* The archive a finished create_backup call returned, with its password.
Created(b) ==
  pc[b] = "done" /\ rd[b].op = "create" /\ ~rd[b].raised

\* C11: for every live state in which the database file exists, with any
\* avatar file names, validate_backup(create_backup(user, P), P) is valid,
\* with metadata that says password-protected and names the current format
\* version.
C11_CreatedArchiveValidates ==
  \A b \in Readers :
    (Created(b) /\ rd[b].dbfile.has) =>
      LET v == validate_backup(rd[b].archive, rd[b].password, 1) IN
        /\ ~v.raised /\ v.valid
        /\ v.metadata.has
        /\ v.metadata.is_password_protected
        /\ v.metadata.backup_format_version = BACKUP_FORMAT_VERSION

\* p restored the archive b created, and the call returned success
RestoredCreated(p, b) ==
  /\ Created(b) /\ Succeeded(p)
  /\ Len(rd[b].archive.tar.dirs) = 1
  /\ rs[p].dir = rd[b].archive.tar.dirs[1]

\* C12: an archive A created from live state S holds the non-user,
\* non-session tables and the avatar files of S; and when, after arbitrary
\* later writes to the live state, perform_restore(A, P) succeeds, the live
\* tables other than users and sessions are those of A, and the avatar
\* directory holds exactly the avatar files of A: added files are gone,
\* deleted files are back.
C12_RestoreBringsBackS ==
  \A b \in Readers :
    /\ (Created(b) /\ StillS) =>
         /\ Len(rd[b].archive.tar.dirs) = 1
         /\ rd[b].archive.tar.dirs[1].dbfile.db = StripUsers(db)
         /\ InstalledAvatars(rd[b].archive.tar.dirs[1]) = avatars.files
    /\ \A p \in Restorers :
         (RestoredCreated(p, b) /\ rs[p].uid = "") =>
           /\ db.events = rd[b].dbfile.db.events
           /\ db.configs = rd[b].dbfile.db.configs
           /\ db.data = rd[b].dbfile.db.data
           /\ avatars.exists => avatars.files = InstalledAvatars(rd[b].archive.tar.dirs[1])
           /\ ~avatars.exists => InstalledAvatars(rd[b].archive.tar.dirs[1]) = {}

C12_Witness ==
  \E b \in Readers, p \in Restorers :
    /\ RestoredCreated(p, b) /\ rs[p].uid = ""
    /\ recovery # [t \in {} |-> BadTar]
    /\ \E t \in DOMAIN recovery :
         /\ Len(recovery[t].dirs) = 1
         /\ recovery[t].dirs[1].avatars.files = {"new.png"}
         /\ recovery[t].dirs[1].dbfile.db.data = "L2"
    /\ avatars.files = {"me.png"} /\ db.data = "L"

PasswordRequired ==
  "This backup is password-protected. Please provide the password."

\* the call was not refused for want of the administrator's row
AdminObtained(p) == rs[p].uid = "" \/ rs[p].admin.has

\* C13: validate_backup on an envelope (a non-gzip upload) with no password
\* returns valid = false, the message asking for the password and metadata
\* with is_password_protected = true, while every other invalid outcome has
\* null metadata; perform_restore with such input returns failure with the
\* message that names the password.
C13_PasswordRequiredIsDistinct ==
  /\ \A file_bytes \in Inputs, password \in Passwords :
       \A k \in Picks(file_bytes) :
         LET v == validate_backup(file_bytes, password, k)
             locked == _is_encrypted_backup(file_bytes) /\ password = ""
         IN  /\ locked =>
                  /\ ~v.raised /\ ~v.valid
                  /\ v.message = PasswordRequired
                  /\ v.metadata.has /\ v.metadata.is_password_protected
             /\ (~locked /\ ~v.raised /\ ~v.valid) =>
                  /\ ~v.metadata.has
                  /\ v.message # PasswordRequired
  /\ \A p \in Restorers :
       (Started(p) /\ rs[p].locked /\ AdminObtained(p)) =>
         /\ pc[p] = "done"
         /\ rs[p].result = Returned(FALSE, PasswordRequired)

C13_Witness ==
  /\ \E p \in Restorers :
       rs[p].locked /\ rs[p].result = Returned(FALSE, PasswordRequired)
  /\ \E b \in Readers :
       /\ pc[b] = "done" /\ rd[b].op = "validate"
       /\ rd[b].v.message = PasswordRequired
       /\ rd[b].v.metadata.is_password_protected

WrongPassword == "Invalid password or corrupted backup"

\* C14: for an archive produced by create_backup with password P1,
\* validate_backup and perform_restore with any non-empty password other than
\* P1 return failure with "Invalid password or corrupted backup", and
\* validate_backup returns null metadata and extracts nothing.
C14_WrongPasswordSaysSo ==
  \A b \in Readers :
    Created(b) =>
      \A password \in Passwords \ {"", rd[b].password} :
        \A k \in Picks(rd[b].archive) :
          LET v == validate_backup(rd[b].archive, password, k) IN
            /\ ~v.raised /\ ~v.valid
            /\ v.message = WrongPassword
            /\ ~v.metadata.has /\ ~v.extracted
            /\ BeginOutcome(db, rd[b].archive, password, "", k) = Returned(FALSE, WrongPassword)

\* the untouched envelopes a caller may upload
Envelopes == { f \in Inputs : f.salt # "" /\ f.intact }

C16_ArchiveHasNoUsers ==
  /\ [](\A b \in Readers :
          (Created(b) /\ Len(rd[b].archive.tar.dirs) = 1) =>
            LET packaged == rd[b].archive.tar.dirs[1].dbfile IN
              packaged.has => packaged.db.users = {} /\ packaged.db.sessions = {})
  /\ [][ \A b \in Readers :
           (pc[b] # pc'[b] /\ rd'[b].op = "create") =>
             db'.users = db.users /\ db'.sessions = db.sessions ]_vars

C16_Witness ==
  \E b \in Readers :
    /\ Created(b) /\ Len(rd[b].archive.tar.dirs) = 1
    /\ rd[b].archive.tar.dirs[1].dbfile.has
    /\ rd[b].archive.tar.dirs[1].dbfile.db.events = LiveDb0.events
    /\ rd[b].archive.tar.dirs[1].dbfile.db.users = {}
    /\ db.users = {Admin1, Bob} /\ db.sessions = {"s1"}

\* C17: for every archive produced by create_backup, manifest.checksum is
\* the SHA-256 of the database file packaged in that archive, which is the
\* copy without its users and sessions rows; and the manifest carries no
\* secret_key.
C17_ChecksumOfPackagedDb ==
  \A b \in Readers :
    (Created(b) /\ Len(rd[b].archive.tar.dirs) = 1) =>
      LET dir == rd[b].archive.tar.dirs[1] IN
        /\ dir.manifest.has
        /\ dir.manifest.secret_key = ""
        /\ dir.dbfile.has =>
             /\ dir.manifest.checksum = Sha256(dir.dbfile.db)
             /\ dir.dbfile.db.users = {} /\ dir.dbfile.db.sessions = {}
        /\ ~dir.dbfile.has => dir.manifest.checksum = {}

C17_Witness ==
  \E b \in Readers :
    /\ Created(b) /\ Len(rd[b].archive.tar.dirs) = 1
    /\ rd[b].archive.tar.dirs[1].dbfile.has
    /\ rd[b].archive.tar.dirs[1].manifest.checksum = Sha256(StripUsers(LiveDb0))
    /\ rd[b].archive.tar.dirs[1].manifest.checksum # Sha256(LiveDb0)

\* C18: after perform_restore returns success the sessions table of the
\* live database is empty, for every archive that validates, a legacy
\* archive or a pre-restore snapshot whose database holds session rows
\* included.
C18_NoSessionsAfterRestore ==
  \A p \in Restorers :
    (Succeeded(p) /\ Alone(p)) => db.sessions = {}

\* The call of p ran the migration and it failed (lines 645-647).
MigrationFailed(p) ==
  /\ pc[p] \in {"import", "admin", "done"}
  /\ ~rs[p].details.migrations_run
  /\ Len(rs[p].details.migrations_message) > 0
  /\ rs[p].details.migrations_message[1] = "Migration failed"

\* C19 as stated: a call whose migration failed returns success = true.
C19_MigrationFailureStillSucceeds ==
  \A p \in Restorers :
    (pc[p] = "done" /\ Alone(p) /\ MigrationFailed(p)) => Succeeded(p)

\* C19 amended: a failed migration is recorded and the call goes on to the
\* import and to the reinsertion of the administrator; it returns success
\* with migrations_run = false unless that reinsertion fails, in which case
\* it returns the reinsertion failure; either way the live database and the
\* avatars stay those of the archive.
C19_MigrationFailureIsRecorded ==
  /\ [](\A p \in Restorers :
          (pc[p] = "done" /\ Alone(p) /\ MigrationFailed(p)) =>
            /\ rs[p].result.returned
            /\ \/ rs[p].result.success
               \/ /\ rs[p].admin.has
                  /\ rs[p].result.message = "Restore failed: could not restore admin user"
            /\ (rs[p].result.success /\ rs[p].admin.has) =>
                  \E u \in db.users : u.id = rs[p].admin.row.id /\ u.is_admin
            /\ (rs[p].admin.has /\ Len(rs[p].dir.configs.list) > 0 /\ db.schema) =>
                  /\ rs[p].details.configs_imported =
                       Cardinality(Imported(rs[p].dir.configs.list))
                  /\ \A c \in db.configs : c.key = InstanceKey
            /\ rs[p].dir.dbfile.has => db.data = rs[p].dir.dbfile.db.data
            /\ rs[p].dir.avatars.exists => avatars = rs[p].dir.avatars)
  /\ [][\A p \in Restorers :
          (pc[p] = "migrate" /\ pc'[p] # "migrate") =>
            /\ pc'[p] = "import"
            /\ avatars' = avatars
            /\ db'.data = db.data]_vars

C19_Witness ==
  \E p \in Restorers :
    /\ pc[p] = "done" /\ Alone(p) /\ MigrationFailed(p)
    /\ Succeeded(p) /\ rs[p].admin.has
    /\ rs[p].details.configs_imported = 1
    /\ rs[p].dir.dbfile.has /\ db.data = rs[p].dir.dbfile.db.data /\ db.data # LiveDb0.data

\* The call of p returned success, had an administrator and restored an
\* archive whose integration_configs.json lists exports.
RestoredWithConfigs(p) ==
  /\ Succeeded(p) /\ Alone(p)
  /\ rs[p].admin.has
  /\ Len(rs[p].dir.configs.list) > 0

\* The exports of a list that carry config_data.
WithData(list) == { i \in 1..Len(list) : list[i].data # "" }

Validated(b) == pc[b] = "done" /\ rd[b].op = "validate"

\* C21: validate_backup and perform_restore return a structured result and
\* never raise, whatever wrong-password, truncated, corrupted or malformed
\* archive they are given.
C21_NeverRaises ==
  /\ \A b \in Readers : Validated(b) => ~rd[b].v.raised
  /\ \A p \in Restorers : pc[p] = "done" => ~rs[p].result.raised

\* The reader validated, giving no password, bytes that begin with the gzip
\* magic and hold one directory with a valid SQLite database (and JSON files
\* that parse).
ValidatedUnencrypted(b) ==
  /\ Validated(b)
  /\ rd[b].password = ""
  /\ rd[b].archive.salt = "" /\ rd[b].archive.gz
  /\ rd[b].archive.tar.parse = "ok"
  /\ Len(rd[b].archive.tar.dirs) = 1
  /\ rd[b].archive.tar.dirs[1].dbfile.has /\ rd[b].archive.tar.dirs[1].dbfile.header
  /\ rd[b].archive.tar.dirs[1].manifest.json /\ rd[b].archive.tar.dirs[1].configs.json

Authentic(d, c, now) ==
  /\ c # "" /\ c \in d.sessions /\ ExpiresAt(c) >= now
  /\ \E u \in d.users : u.id = SessionUser(c) /\ u.is_active

AdminSession(d, c, now) ==
  /\ Authentic(d, c, now)
  /\ \E u \in d.users : u.id = SessionUser(c) /\ u.is_admin

\* A request that was answered 401 or 403 has created, validated and
\* restored nothing.
NothingDone(p) ==
  IF p \in Restorers
  THEN rs[p].result = NoResult /\ rs[p].dir = NoDir /\ rs[p].details = NoDetails
  ELSE rd[p].archive = NoBytes /\ rd[p].v = RdIdle.v /\ rd[p].info = NoInfo

Denied(p) == pc[p] \in {"401", "403"}

C24_ReplacementIsAtomic ==
  LET \* The call of p is between the extraction and the migration: lines
      \* 628-642.
      Replacing(p) ==
        pc[p] \in {"copy_db", "copy_db_write", "avatars", "avatars_copy",
                   "avatars_mkdir", "migrate"}
      \* The pair the archive of p brings: its database file, and its avatars
      \* or an emptied (or still absent) avatar directory.
      ArchivePair(p) ==
        /\ rs[p].dir.dbfile.has
        /\ db = [rs[p].dir.dbfile.db EXCEPT !.exists = TRUE]
        /\ IF rs[p].dir.avatars.exists THEN avatars = rs[p].dir.avatars
           ELSE avatars \in {EmptyAvatarDir, NoAvatars}
  IN  \A p \in Restorers :
        Replacing(p) =>
          \/ db = LiveDb0 /\ avatars = LiveAvatars0
          \/ ArchivePair(p)

\* The call of p is over and its import of the config exports has run.
ImportRan(p) ==
  /\ pc[p] = "done"
  /\ rs[p].admin.has
  /\ Len(rs[p].dir.configs.list) > 0
  /\ Len(rs[p].details.migrations_message) > 0

\* The exports of the call of p whose row is in the live table.
PresentExports(p) ==
  LET list == rs[p].dir.configs.list IN
    { i \in 1..Len(list) :
        \E c \in db.configs :
          /\ c.id = list[i].id /\ c.data = list[i].data
          /\ c.key = InstanceKey /\ c.created_by = rs[p].admin.row.id }

RestoredLegacy(p) ==
  /\ Succeeded(p)
  /\ rs[p].dir.manifest.has /\ rs[p].dir.manifest.secret_key # ""

Advised(p) ==
  \E i \in 1..Len(rs[p].details.migrations_message) :
    rs[p].details.migrations_message[i] = LegacyNote

\* C26 as stated: in every such restore the archive's key is installed as
\* SECRET_KEY and the advisory is appended to details.migrations_message,
\* with or without config exports, with or without an administrator id.
C26_LegacyKeyAlwaysInstalled ==
  \A p \in Restorers :
    RestoredLegacy(p) => env = rs[p].dir.manifest.secret_key /\ Advised(p)

\* C26 amended: the key is installed and the advisory appended exactly when
\* the import of config exports did not run, that is unless the archive has
\* exports and an administrator id was supplied; when it ran, the .env file
\* keeps its key and no advisory is given.
C26_LegacyKeyInstalledUnlessImported ==
  \A p \in Restorers :
    RestoredLegacy(p) =>
      IF rs[p].admin.has /\ Len(rs[p].dir.configs.list) > 0
      THEN env = InstanceKey /\ ~Advised(p)
      ELSE /\ env = rs[p].dir.manifest.secret_key
           /\ Advised(p)
           /\ rs[p].details.migrations_message[Len(rs[p].details.migrations_message)]
                = LegacyNote

C26_Witness ==
  \E p \in Restorers :
    /\ RestoredLegacy(p)
    /\ rs[p].admin.has
    /\ Len(rs[p].dir.configs.list) = 0
    /\ env = ForeignKey /\ env # InstanceKey
    /\ Advised(p)

\* C27: for a plain archive, or an envelope the password opens, with one
\* top-level directory and only safe member names, validate_backup returns
\* valid exactly when the directory holds travel_manager.db with the SQLite
\* header; a missing file or a wrong header is a failure with null metadata;
\* a missing manifest.json is never a failure and only adds a warning with a
\* synthesized manifest.
C27_ValidIffSqliteHeader ==
  LET ValidatedOpened(b) ==
        /\ Validated(b)
        /\ \/ rd[b].archive.salt = ""
           \/ /\ _is_encrypted_backup(rd[b].archive)
              /\ rd[b].password # ""
              /\ try_decrypt_backup(rd[b].archive, rd[b].password).success
        /\ rd[b].archive.tar.parse = "ok"
        /\ Len(rd[b].archive.tar.dirs) = 1
        /\ \A n \in MemberNames(rd[b].archive.tar) : ~UnsafeName(n)
  IN  \A b \in Readers :
        ValidatedOpened(b) =>
          LET dir == rd[b].archive.tar.dirs[1]
              v == rd[b].v
          IN  /\ ~v.raised
              /\ v.valid <=> (dir.dbfile.has /\ dir.dbfile.header)
              /\ ~v.valid => ~v.metadata.has
              /\ (~dir.manifest.has /\ v.valid) =>
                    /\ v.warnings = {"No manifest.json found - backup may be from an older version"}
                    /\ v.metadata.backup_format_version = "unknown"

\* C28: validate_backup accepts an archive only if its tar root holds
\* exactly one top-level directory, so that the directory perform_restore
\* installs is the one whose database validate_backup checked.
C28_ExactlyOneTopLevelDirectory ==
  /\ \A b \in Readers :
       (Validated(b) /\ ~rd[b].v.raised /\ rd[b].v.valid) =>
         Len(rd[b].archive.tar.dirs) = 1
  /\ \A p \in Restorers :
       (pc[p] \in {"copy_db", "copy_db_write"} \/ Succeeded(p)) =>
         /\ \A a \in TheUpload : Len(a.tar.dirs) = 1
         /\ rs[p].dir.dbfile.has /\ rs[p].dir.dbfile.header

\* validate_backup returned valid to the reader
ValidResult(b) == pc[b] = "done" /\ ~rd[b].v.raised /\ rd[b].v.valid

\* C29: in every valid result metadata.db_size_bytes is the size of the
\* extracted database file and metadata.avatar_count the number of entries of
\* the extracted avatars directory (0 when absent), whatever the manifest
\* declares or when it is missing; metadata.integration_config_count is the
\* number of entries of integration_configs.json (0 when absent), which for a
\* freshly created archive is the number of integration_configs rows of the
\* live database.
C29_MetadataFromExtractedFiles ==
  /\ [](\A b \in Readers :
          ValidResult(b) =>
            \E k \in 1..Len(rd[b].archive.tar.dirs) :
              LET dir == rd[b].archive.tar.dirs[k] IN
                /\ rd[b].v.metadata.db_size_bytes = DbSize(dir.dbfile.db)
                /\ rd[b].v.metadata.avatar_count =
                     (IF dir.avatars.exists THEN Cardinality(dir.avatars.files) ELSE 0)
                /\ rd[b].v.metadata.integration_config_count =
                     (IF dir.configs.has THEN Len(dir.configs.list) ELSE 0))
  /\ [][\A b \in Readers :
          (pc[b] = "idle" /\ pc'[b] = "bk_avatars" /\ db.exists) =>
            /\ rd'[b].configs.has
            /\ Len(rd'[b].configs.list) = Cardinality(db.configs)]_vars
  /\ [](\A b \in Readers :
          (ValidResult(b) /\ rd[b].op = "create" /\ rd[b].dbfile.has) =>
            rd[b].v.metadata.integration_config_count = Len(rd[b].configs.list))

C29_Witness ==
  \E b \in Readers :
    /\ ValidResult(b)
    /\ Len(rd[b].archive.tar.dirs) = 1
    /\ rd[b].archive.tar.dirs[1] = DirLying
    /\ rd[b].v.metadata.db_size_bytes = DbSize(DbB)
    /\ rd[b].v.metadata.db_size_bytes # DirLying.manifest.db_size_bytes
    /\ rd[b].v.metadata.avatar_count = 0
    /\ DirLying.manifest.avatar_count = 7

\* C30: pre-restore snapshots only accumulate: a perform_restore that reaches
\* the destructive phase adds exactly one new snapshot file to the recovery
\* directory, and no step of any sequence of restores, two restores within
\* the same second included, deletes or overwrites a snapshot written earlier.
C30_SnapshotsOnlyAccumulate ==
  [][/\ \A s \in DOMAIN recovery :
          s \in DOMAIN recovery' /\ recovery'[s] = recovery[s]
     /\ \A p \in Restorers :
          (pc[p] = "snap_write" /\ pc'[p] = "extract") =>
            Cardinality(DOMAIN recovery') = Cardinality(DOMAIN recovery) + 1]_vars

====
